---------------------------- MODULE Spec2Model ----------------------------
(***************************************************************************)
(* Verification model of the data-contract editor's form validation        *)
(* (ValidatedInput, ValidatedTextarea) and of the custom-property          *)
(* handling of the TermsOfUse route.                                       *)
(*                                                                         *)
(* JavaScript values are modelled as follows.                              *)
(*   - A field value is a record [t, s, n]: t is the JavaScript type tag   *)
(*     ("undefined", "null", "string", "number"), s the characters of a    *)
(*     string (a sequence of one-character strings), n the number.         *)
(*   - An optional prop is <<>> when undefined and <<x>> when set to x.    *)
(*   - A message is a string, built as the template literal builds it.     *)
(*   - description.customProperties is a record [kind, items]: kind is     *)
(*     "undefined", "object" or "array"; items is the sequence of          *)
(*     [property, value] pairs, for an object in own-key enumeration       *)
(*     order.                                                              *)
(***************************************************************************)
EXTENDS Integers, Sequences, FiniteSets, TLC

VARIABLES
    props,        \* the props the parent passes to the validated field
    inputOut,     \* what ValidatedInput rendered for props
    textareaOut,  \* what ValidatedTextarea rendered for props
    stored,       \* the store's description.customProperties
    captured,     \* description?.customProperties as seen by the last render
    lookup,       \* customPropertiesLookup memoised by the last render
    calls         \* history: the updateCustomProperty calls made so far

formVars == <<props, inputOut, textareaOut>>
storeVars == <<stored, captured, lookup, calls>>
vars == <<props, inputOut, textareaOut, stored, captured, lookup, calls>>

-----------------------------------------------------------------------------
(* Bounds of the model *)

\* longest string value of a field
MaxLen == 2
\* longest customProperties array / object a document starts with
MaxEntries == 2
\* number of updateCustomProperty calls followed
MaxCalls == 3

-----------------------------------------------------------------------------
(* JavaScript strings and numbers *)

None == <<>>
Some(x) == <<x>>
IsSet(o) == o # <<>>
Get(o) == o[1]

Chars == {" ", "a", "1"}

RECURSIVE StringsUpTo(_)
StringsUpTo(n) ==
    IF n = 0 THEN {<<>>}
    ELSE LET shorter == StringsUpTo(n - 1)
         IN shorter \cup {Append(s, c) : s \in {t \in shorter : Len(t) = n - 1}, c \in Chars}

Undefined == [t |-> "undefined", s |-> <<>>, n |-> 0]
Null == [t |-> "null", s |-> <<>>, n |-> 0]
Str(s) == [t |-> "string", s |-> s, n |-> 0]
Num(n) == [t |-> "number", s |-> <<>>, n |-> n]

IsWhitespace(c) == c = " "

RECURSIVE TrimStart(_)
TrimStart(s) ==
    IF s # <<>> /\ IsWhitespace(Head(s)) THEN TrimStart(Tail(s)) ELSE s

RECURSIVE TrimEnd(_)
TrimEnd(s) ==
    IF s # <<>> /\ IsWhitespace(s[Len(s)]) THEN TrimEnd(SubSeq(s, 1, Len(s) - 1)) ELSE s

\* String.prototype.trim
Trim(s) == TrimEnd(TrimStart(s))

Digits == <<"0", "1", "2", "3", "4", "5", "6", "7", "8", "9">>
IsDigit(c) == \E i \in 1..10 : Digits[i] = c
DigitVal(c) == (CHOOSE i \in 1..10 : Digits[i] = c) - 1

RECURSIVE Decimal(_)
Decimal(s) ==
    IF s = <<>> THEN 0 ELSE 10 * Decimal(SubSeq(s, 1, Len(s) - 1)) + DigitVal(s[Len(s)])

NaN == [nan |-> TRUE, n |-> 0]
Finite(n) == [nan |-> FALSE, n |-> n]

\* Number(string): surrounding whitespace is ignored, the empty string is 0,
\* a run of digits is its decimal value, anything else over Chars is NaN.
StringToNumber(s) ==
    LET t == Trim(s)
    IN IF t = <<>> THEN Finite(0)
       ELSE IF \A i \in 1..Len(t) : IsDigit(t[i]) THEN Finite(Decimal(t))
       ELSE NaN

RECURSIVE NatToString(_)
NatToString(n) ==
    IF n < 10 THEN <<Digits[n + 1]>>
    ELSE Append(NatToString(n \div 10), Digits[(n % 10) + 1])

\* Number.prototype.toString for an integer
NumberToString(n) == IF n < 0 THEN <<"-">> \o NatToString(-n) ELSE NatToString(n)

\* JavaScript truthiness of a field value
Truthy(v) ==
    CASE v.t = "undefined" -> FALSE
      [] v.t = "null" -> FALSE
      [] v.t = "string" -> v.s # <<>>
      [] v.t = "number" -> v.n # 0

\* value.toString(), called on truthy values only
ToStringOf(v) == IF v.t = "number" THEN NumberToString(v.n) ELSE v.s

-----------------------------------------------------------------------------
(* Regular expressions: the patterns the model passes, and what new RegExp  *)
(* and RegExp.prototype.test do with them.                                  *)

LettersPattern == "^a+$"
BrokenPattern == "["

\* new RegExp(pattern) throws SyntaxError on an unterminated character class
RegExpThrows(pattern) == pattern = BrokenPattern

\* new RegExp(pattern).test(s) for the patterns that compile
RegExpTest(pattern, s) ==
    CASE pattern = LettersPattern -> s # <<>> /\ \A i \in 1..Len(s) : s[i] = "a"
      [] OTHER -> FALSE

-----------------------------------------------------------------------------
(* ValidatedInput *)

FieldName == "description-purpose"

RequiredMessage == "This field is required"

PatternMessage(p) ==
    IF IsSet(p.patternMessage) /\ Get(p.patternMessage) # ""
    THEN Get(p.patternMessage)
    ELSE "Value must match pattern: " \o Get(p.pattern)

MinLengthMessage(minLength, len) ==
    "Minimum length is " \o ToString(minLength) \o " (currently " \o ToString(len) \o ")"

MaxLengthMessage(maxLength, len) ==
    "Maximum length is " \o ToString(maxLength) \o " (currently " \o ToString(len) \o ")"

MinimumMessage(minimum) == "Minimum value is " \o ToString(minimum)

MaximumMessage(maximum) == "Maximum value is " \o ToString(maximum)

\* errorMessages.push(msg) under if (cond)
PushIf(list, cond, msg) == IF cond THEN Append(list, msg) ELSE list

hasInternalError(p) ==
    /\ ~p.skipInternalValidation
    /\ p.required
    /\ (~Truthy(p.value) \/ Trim(ToStringOf(p.value)) = <<>>)

\* The pattern check with a catch block that reports an error.
hasPatternErrorCatchTrue(p) ==
    /\ ~p.skipInternalValidation
    /\ IsSet(p.pattern) /\ Get(p.pattern) # ""
    /\ Truthy(p.value)
    /\ p.value.t = "string"
    /\ Trim(p.value.s) # <<>>
    /\ IF RegExpThrows(Get(p.pattern)) THEN TRUE
       ELSE ~RegExpTest(Get(p.pattern), p.value.s)

hasPatternError(p) ==
    /\ ~p.skipInternalValidation
    /\ IsSet(p.pattern) /\ Get(p.pattern) # ""
    /\ Truthy(p.value)
    /\ p.value.t = "string"
    /\ Trim(p.value.s) # <<>>
    /\ IF RegExpThrows(Get(p.pattern)) THEN FALSE
       ELSE ~RegExpTest(Get(p.pattern), p.value.s)

trimmed(p) ==
    IF Truthy(p.value) /\ p.value.t = "string" THEN Trim(p.value.s) ELSE <<>>

hasMinLengthError(p) ==
    /\ ~p.skipInternalValidation
    /\ IsSet(p.minLength)
    /\ trimmed(p) # <<>>
    /\ Len(trimmed(p)) < Get(p.minLength)

\* The maximum-length check as the else-branch of the minimum-length check.
hasMaxLengthErrorElseIf(p) ==
    /\ ~hasMinLengthError(p)
    /\ ~p.skipInternalValidation
    /\ IsSet(p.maxLength)
    /\ trimmed(p) # <<>>
    /\ Len(trimmed(p)) > Get(p.maxLength)

hasMaxLengthError(p) ==
    /\ ~p.skipInternalValidation
    /\ IsSet(p.maxLength)
    /\ trimmed(p) # <<>>
    /\ Len(trimmed(p)) > Get(p.maxLength)

numericValue(p) ==
    CASE p.value.t = "undefined" -> NaN
      [] p.value.t = "null" -> NaN
      [] p.value.t = "string" -> IF p.value.s = <<>> THEN NaN ELSE StringToNumber(p.value.s)
      [] p.value.t = "number" -> Finite(p.value.n)

hasMinimumError(p) ==
    /\ ~p.skipInternalValidation
    /\ IsSet(p.minimum)
    /\ ~numericValue(p).nan
    /\ numericValue(p).n < Get(p.minimum)

hasMaximumError(p) ==
    /\ ~p.skipInternalValidation
    /\ IsSet(p.maximum)
    /\ ~numericValue(p).nan
    /\ numericValue(p).n > Get(p.maximum)

\* The combined list with the external errors pushed first.
errorMessagesExternalFirst(p) ==
    LET e0 == p.externalErrors
        e1 == PushIf(e0, hasInternalError(p), RequiredMessage)
        e2 == PushIf(e1, hasPatternError(p), PatternMessage(p))
        e3 == PushIf(e2, hasMinLengthError(p), MinLengthMessage(Get(p.minLength), Len(trimmed(p))))
        e4 == PushIf(e3, hasMaxLengthError(p), MaxLengthMessage(Get(p.maxLength), Len(trimmed(p))))
        e5 == PushIf(e4, hasMinimumError(p), MinimumMessage(Get(p.minimum)))
        e6 == PushIf(e5, hasMaximumError(p), MaximumMessage(Get(p.maximum)))
    IN e6

errorMessages(p) ==
    LET e0 == <<>>
        e1 == PushIf(e0, hasInternalError(p), RequiredMessage)
        e2 == PushIf(e1, hasPatternError(p), PatternMessage(p))
        e3 == PushIf(e2, hasMinLengthError(p), MinLengthMessage(Get(p.minLength), Len(trimmed(p))))
        e4 == PushIf(e3, hasMaxLengthError(p), MaxLengthMessage(Get(p.maxLength), Len(trimmed(p))))
        e5 == PushIf(e4, hasMinimumError(p), MinimumMessage(Get(p.minimum)))
        e6 == PushIf(e5, hasMaximumError(p), MaximumMessage(Get(p.maximum)))
    IN e6 \o p.externalErrors

\* What a render leaves in the DOM: the <p> messages and the aria attributes.
\* threw is TRUE when the render raised an exception instead.
Rendered(messages) ==
    LET hasError == Len(messages) > 0
    IN [threw |-> FALSE,
        messages |-> IF hasError THEN messages ELSE <<>>,
        ariaInvalid |-> hasError,
        ariaDescribedby |-> IF hasError THEN Some(FieldName \o "-error") ELSE None]

Threw == [threw |-> TRUE, messages |-> <<>>, ariaInvalid |-> FALSE, ariaDescribedby |-> None]

ValidatedInput(p) == Rendered(errorMessages(p))

-----------------------------------------------------------------------------
(* ValidatedTextarea *)

\* value || ''
strValue(p) == IF Truthy(p.value) THEN p.value ELSE Str(<<>>)

\* strValue.trim is not a function when strValue is a number
taTrimThrows(p) == strValue(p).t # "string"

taTrimmed(p) == Trim(strValue(p).s)

taErrorMessages(p) ==
    LET e0 == <<>>
        e1 == PushIf(e0, p.required /\ taTrimmed(p) = <<>>, RequiredMessage)
        e2 == PushIf(e1, taTrimmed(p) # <<>> /\ IsSet(p.minLength)
                           /\ Len(taTrimmed(p)) < Get(p.minLength),
                     MinLengthMessage(Get(p.minLength), Len(taTrimmed(p))))
        e3 == PushIf(e2, taTrimmed(p) # <<>> /\ IsSet(p.maxLength)
                           /\ Len(taTrimmed(p)) > Get(p.maxLength),
                     MaxLengthMessage(Get(p.maxLength), Len(taTrimmed(p))))
    IN e3

ValidatedTextarea(p) ==
    IF taTrimThrows(p) THEN Threw ELSE Rendered(taErrorMessages(p))

-----------------------------------------------------------------------------
(* The validated field as a state machine: the parent re-renders it with   *)
(* new props; every render is synchronous and computes both components.    *)

Numbers == {0, 1}

FieldValues ==
    {Undefined, Null} \cup {Num(n) : n \in Numbers} \cup {Str(s) : s \in StringsUpTo(MaxLen)}


Patterns == {None, Some(LettersPattern), Some(BrokenPattern)}
PatternMessages == {None, Some("Letters only")}
MinLengths == {None, Some(3)}
MaxLengths == {None, Some(1)}
Minimums == {None, Some(2)}
Maximums == {None, Some(0)}
ExternalErrorLists == {<<>>, <<"Server rejected", "Not unique", "Not unique">>}

\* The props of a field rendered with nothing but its defaults.
DefaultProps ==
    [value |-> Undefined, required |-> FALSE, pattern |-> None, patternMessage |-> None,
     minLength |-> None, maxLength |-> None, minimum |-> None, maximum |-> None,
     externalErrors |-> <<>>, skipInternalValidation |-> FALSE]

RenderField(p) ==
    /\ props' = p
    /\ inputOut' = ValidatedInput(p)
    /\ textareaOut' = ValidatedTextarea(p)
    /\ UNCHANGED storeVars

FormInit ==
    /\ props = DefaultProps
    /\ inputOut = ValidatedInput(DefaultProps)
    /\ textareaOut = ValidatedTextarea(DefaultProps)

\* The text the <input> shows for value
ShownText(v) ==
    CASE v.t = "string" -> v.s
      [] v.t = "number" -> NumberToString(v.n)
      [] OTHER -> <<>>

\* A keystroke: onChange hands the parent the shown text plus one character,
\* and the parent passes it back as the value.
Type ==
    \E c \in Chars :
        /\ Len(ShownText(props.value)) < MaxLen
        /\ RenderField([props EXCEPT !.value = Str(Append(ShownText(props.value), c))])

\* Backspace: the shown text without its last character.
Erase ==
    /\ ShownText(props.value) # <<>>
    /\ RenderField([props EXCEPT !.value =
           Str(SubSeq(ShownText(props.value), 1, Len(ShownText(props.value)) - 1))])

\* The document is reloaded: the store hands the field what the YAML holds.
LoadValue ==
    \E v \in FieldValues \ {props.value} :
        v.t # "string" /\ RenderField([props EXCEPT !.value = v])

\* The parent re-renders the field with one prop changed.
SetRequired == RenderField([props EXCEPT !.required = ~props.required])
SetPattern ==
    \E x \in Patterns \ {props.pattern} : RenderField([props EXCEPT !.pattern = x])
SetPatternMessage ==
    \E x \in PatternMessages \ {props.patternMessage} :
        RenderField([props EXCEPT !.patternMessage = x])
SetMinLength ==
    \E x \in MinLengths \ {props.minLength} : RenderField([props EXCEPT !.minLength = x])
SetMaxLength ==
    \E x \in MaxLengths \ {props.maxLength} : RenderField([props EXCEPT !.maxLength = x])
SetMinimum ==
    \E x \in Minimums \ {props.minimum} : RenderField([props EXCEPT !.minimum = x])
SetMaximum ==
    \E x \in Maximums \ {props.maximum} : RenderField([props EXCEPT !.maximum = x])
SetExternalErrors ==
    \E x \in ExternalErrorLists \ {props.externalErrors} :
        RenderField([props EXCEPT !.externalErrors = x])
SetSkipInternalValidation ==
    RenderField([props EXCEPT !.skipInternalValidation = ~props.skipInternalValidation])

-----------------------------------------------------------------------------
(* TermsOfUse: description.customProperties                                 *)
(* A custom-property name or value is a string; UndefinedValue stands for   *)
(* JavaScript's undefined.  An array item is [property, value]; an object   *)
(* is the sequence of its <<key, value>> pairs in own-key order.            *)

UndefinedValue == "<undefined>"
PropertyNames == {"a", "b", "1", "__proto__"}
PropertyValues == {"v1", "v2"}

NoCustomProperties == [kind |-> "undefined", items |-> <<>>]
ArrayOf(items) == [kind |-> "array", items |-> items]
ObjectOf(pairs) == [kind |-> "object", items |-> pairs]

\* Own keys that are canonical array indices enumerate first, ascending.
IsIndexKey(k) == k \in {"1", "2"}
IndexKeyValue(k) == IF k = "1" THEN 1 ELSE 2

\* Where a new own key k lands in the enumeration order of pairs.
InsertPosition(pairs, k) ==
    IF IsIndexKey(k)
    THEN Cardinality({i \in 1..Len(pairs) :
             IsIndexKey(pairs[i][1]) /\ IndexKeyValue(pairs[i][1]) < IndexKeyValue(k)}) + 1
    ELSE Len(pairs) + 1

\* Defining own property k with value v (what a parser building the object does)
DefineOwn(pairs, k, v) ==
    IF \E i \in 1..Len(pairs) : pairs[i][1] = k
    THEN [i \in 1..Len(pairs) |-> IF pairs[i][1] = k THEN <<k, v>> ELSE pairs[i]]
    ELSE LET at == InsertPosition(pairs, k)
         IN SubSeq(pairs, 1, at - 1) \o <<(<<k, v>>)>> \o SubSeq(pairs, at, Len(pairs))

\* acc[k] = v on an object literal that has no own property "__proto__": the
\* assignment acc["__proto__"] = v runs the setter inherited from
\* Object.prototype, which ignores a value that is neither an object nor null.
ObjSet(pairs, k, v) ==
    IF k = "__proto__" THEN pairs ELSE DefineOwn(pairs, k, v)

\* props.reduce((acc, item) => { if (item?.property !== undefined) acc[...] = ...}, {})
RECURSIVE ReduceToLookup(_, _)
ReduceToLookup(acc, items) ==
    IF items = <<>> THEN acc
    ELSE LET item == Head(items)
         IN ReduceToLookup(
                IF item.property # UndefinedValue
                THEN ObjSet(acc, item.property, item.value) ELSE acc,
                Tail(items))

customPropertiesLookup(customProperties) ==
    CASE customProperties.kind = "array" -> ObjectOf(ReduceToLookup(<<>>, customProperties.items))
      [] customProperties.kind = "object" -> customProperties
      [] OTHER -> ObjectOf(<<>>)

\* The conversion with key and value exchanged.
ObjectEntriesToArraySwapped(pairs) ==
    [i \in 1..Len(pairs) |-> [property |-> pairs[i][2], value |-> pairs[i][1]]]

\* Object.entries(currentProps).map(([k, v]) => ({ property: k, value: v }))
ObjectEntriesToArray(pairs) ==
    [i \in 1..Len(pairs) |-> [property |-> pairs[i][1], value |-> pairs[i][2]]]

currentArray(currentProps) ==
    CASE currentProps.kind = "array" -> currentProps.items
      [] currentProps.kind = "object" -> ObjectEntriesToArray(currentProps.items)
      [] OTHER -> <<>>

\* currentArray.findIndex(item => item.property === property), 1-based; 0 when absent
FindIndex(items, property) ==
    IF \E i \in 1..Len(items) : items[i].property = property
    THEN CHOOSE i \in 1..Len(items) :
             /\ items[i].property = property
             /\ \A j \in 1..(i - 1) : items[j].property # property
    ELSE 0

\* The update that always appends the new entry.
UpdatedCustomPropertiesAppend(currentProps, property, value) ==
    LET array == currentArray(currentProps)
    IN IF value = UndefinedValue
       THEN LET updated == SelectSeq(array, LAMBDA item : item.property # property)
            IN IF Len(updated) > 0 THEN ArrayOf(updated) ELSE NoCustomProperties
       ELSE ArrayOf(Append(array, [property |-> property, value |-> value]))

\* What updateCustomProperty passes to setYamlValue('description.customProperties', .)
UpdatedCustomProperties(currentProps, property, value) ==
    LET array == currentArray(currentProps)
    IN IF value = UndefinedValue
       THEN LET updated == SelectSeq(array, LAMBDA item : item.property # property)
            IN IF Len(updated) > 0 THEN ArrayOf(updated) ELSE NoCustomProperties
       ELSE LET existingIndex == FindIndex(array, property)
            IN IF existingIndex >= 1
               THEN ArrayOf([array EXCEPT ![existingIndex] =
                                [property |-> property, value |-> value]])
               ELSE ArrayOf(Append(array, [property |-> property, value |-> value]))

\* The store writes the value at the path; the next getValue returns it.
setYamlValue(value) == stored' = value

\* The callback of the last render runs: it reads the description that render
\* captured and writes the store.
updateCustomProperty(property, value) ==
    /\ setYamlValue(UpdatedCustomProperties(captured, property, value))
    /\ UNCHANGED <<captured, lookup>>

\* TermsOfUse re-renders: it reads the description from the store, recomputes
\* the memoised lookup and hands out a fresh callback.
TermsOfUse ==
    /\ captured' = stored
    /\ lookup' = customPropertiesLookup(stored)
    /\ UNCHANGED <<stored, calls>>

-----------------------------------------------------------------------------
(* Specifications *)

SeqsUpTo(S, n) == UNION {[1..k -> S] : k \in 0..n}

RECURSIVE ObjectFrom(_, _)
ObjectFrom(pairs, assignments) ==
    IF assignments = <<>> THEN pairs
    ELSE ObjectFrom(DefineOwn(pairs, Head(assignments)[1], Head(assignments)[2]),
                    Tail(assignments))

\* What a loaded document can hold at description.customProperties: nothing,
\* an array of items (names may repeat or be missing), or a keyed object
\* (whose keys the parser defined as own properties).
StoredArrays ==
    {ArrayOf(items) :
        items \in SeqsUpTo([property : PropertyNames \cup {UndefinedValue},
                            value : PropertyValues], MaxEntries)}

StoredObjects ==
    {ObjectOf(ObjectFrom(<<>>, a)) : a \in SeqsUpTo(PropertyNames \X PropertyValues, MaxEntries)}

Documents == {NoCustomProperties} \cup StoredArrays \cup StoredObjects

CallValues == PropertyValues \cup {UndefinedValue}

StoreIdle ==
    /\ stored = NoCustomProperties
    /\ captured = NoCustomProperties
    /\ lookup = customPropertiesLookup(NoCustomProperties)
    /\ calls = <<>>

\* Form validation: the field is re-rendered with changing props.
FormSpecInit == FormInit /\ StoreIdle

FormNext ==
    \/ Type
    \/ Erase
    \/ LoadValue
    \/ SetRequired
    \/ SetPattern
    \/ SetPatternMessage
    \/ SetMinLength
    \/ SetMaxLength
    \/ SetMinimum
    \/ SetMaximum
    \/ SetExternalErrors
    \/ SetSkipInternalValidation

FormSpec == FormSpecInit /\ [][FormNext]_vars

\* Custom properties of any loaded document.
StoreInit ==
    /\ FormInit
    /\ stored \in Documents
    /\ captured = stored
    /\ lookup = customPropertiesLookup(stored)
    /\ calls = <<>>

Rerender == TermsOfUse /\ UNCHANGED formVars

PropertyChange ==
    \E property \in PropertyNames, value \in CallValues :
        /\ updateCustomProperty(property, value)
        /\ UNCHANGED calls
        /\ UNCHANGED formVars

StoreNext == Rerender \/ PropertyChange

StoreSpec == StoreInit /\ [][StoreNext]_vars

\* Custom properties of a document that starts without any, with the calls
\* recorded.
TrackedPropertyChange ==
    \E property \in PropertyNames, value \in CallValues :
        /\ Len(calls) < MaxCalls
        /\ updateCustomProperty(property, value)
        /\ calls' = Append(calls, [property |-> property, value |-> value])
        /\ UNCHANGED formVars

FreshNext == Rerender \/ TrackedPropertyChange

FreshInit == FormInit /\ StoreIdle

FreshSpec == FreshInit /\ [][FreshNext]_vars

-----------------------------------------------------------------------------
(* Vocabulary of the properties *)

Range(s) == {s[i] : i \in 1..Len(s)}
Count(s, x) == Cardinality({i \in 1..Len(s) : s[i] = x})

\* A value is blank when it is absent, the empty string, or whitespace only.
IsBlankValue(v) ==
    \/ v.t \in {"undefined", "null"}
    \/ v.t = "string" /\ \A i \in 1..Len(v.s) : v.s[i] = " "

\* The messages of a rendered ValidatedInput before the caller's external errors.
OwnMessages(out, p) == SubSeq(out.messages, 1, Len(out.messages) - Len(p.externalErrors))

\* The messages each rule can produce under the constraints of the model
PatternMessageSet ==
    {PatternMessage([pattern |-> x, patternMessage |-> y]) :
        x \in Patterns \ {None}, y \in PatternMessages}
MinLengthMessageSet ==
    {MinLengthMessage(Get(x), n) : x \in MinLengths \ {None}, n \in 0..MaxLen}
MaxLengthMessageSet ==
    {MaxLengthMessage(Get(x), n) : x \in MaxLengths \ {None}, n \in 0..MaxLen}
MinimumMessageSet == {MinimumMessage(Get(x)) : x \in Minimums \ {None}}
MaximumMessageSet == {MaximumMessage(Get(x)) : x \in Maximums \ {None}}

IsPatternMessage(m) == m \in PatternMessageSet
IsMinLengthMessage(m) == m \in MinLengthMessageSet
IsMaxLengthMessage(m) == m \in MaxLengthMessageSet
IsMinimumMessage(m) == m \in MinimumMessageSet
IsMaximumMessage(m) == m \in MaximumMessageSet

\* The lookup object as a key/value map
LookupHas(object, k) == \E i \in 1..Len(object.items) : object.items[i][1] = k
LookupGet(object, k) ==
    object.items[CHOOSE i \in 1..Len(object.items) : object.items[i][1] = k][2]

DistinctNames(items) ==
    \A i, j \in 1..Len(items) : i # j => items[i].property # items[j].property

-----------------------------------------------------------------------------
(* C1: a required field whose value is blank shows 'This field is required' *)
(* exactly once, and a field that is not required, or whose value is not    *)
(* blank, never gets that message from the component's own checks; for      *)
(* ValidatedInput (internal validation on) and for ValidatedTextarea.       *)
C1_RequiredExactlyWhenBlank ==
    LET blankAndRequired == props.required /\ IsBlankValue(props.value)
    IN /\ ~props.skipInternalValidation =>
             /\ blankAndRequired => Count(inputOut.messages, RequiredMessage) = 1
             /\ ~blankAndRequired => RequiredMessage \notin Range(OwnMessages(inputOut, props))
       /\ blankAndRequired => Count(textareaOut.messages, RequiredMessage) = 1
       /\ ~blankAndRequired => RequiredMessage \notin Range(textareaOut.messages)

-----------------------------------------------------------------------------
(* C2: a pattern that is no valid regular expression is caught and treated  *)
(* as no error: the render completes, no pattern message is shown, and the  *)
(* messages are those of the same field without a pattern.                  *)
C2_BrokenPatternIsNoError ==
    (IsSet(props.pattern) /\ RegExpThrows(Get(props.pattern))) =>
        /\ ~inputOut.threw
        /\ \A m \in Range(OwnMessages(inputOut, props)) : ~IsPatternMessage(m)
        /\ inputOut = ValidatedInput([props EXCEPT !.pattern = None])

\* A broken pattern reaches the RegExp constructor (a non-blank string value,
\* internal validation on) while another rule reports an error.
C2_Witness ==
    /\ IsSet(props.pattern) /\ RegExpThrows(Get(props.pattern))
    /\ ~props.skipInternalValidation
    /\ props.value.t = "string" /\ ~IsBlankValue(props.value)
    /\ \E m \in Range(inputOut.messages) : IsMinLengthMessage(m)

-----------------------------------------------------------------------------
\* The place of a message in the order of the internal rules; 0 for any other
C4_Rank(m) ==
    CASE m = RequiredMessage -> 1
      [] IsPatternMessage(m) -> 2
      [] IsMinLengthMessage(m) -> 3
      [] IsMaxLengthMessage(m) -> 4
      [] IsMinimumMessage(m) -> 5
      [] IsMaximumMessage(m) -> 6
      [] OTHER -> 0

(* C4: the error list of ValidatedInput is the internal messages in the     *)
(* order required, pattern, minimum length, maximum length, minimum value,  *)
(* maximum value, followed by the external errors in the caller's order;    *)
(* aria-invalid is true and aria-describedby is '<name>-error' exactly when *)
(* the list is non-empty; with skipInternalValidation the list is the       *)
(* external errors alone.                                                   *)
C4_ErrorListShape ==
    LET all == inputOut.messages
        ext == props.externalErrors
        own == OwnMessages(inputOut, props)
    IN /\ ~inputOut.threw
       /\ Len(all) >= Len(ext)
       /\ SubSeq(all, Len(all) - Len(ext) + 1, Len(all)) = ext
       /\ \A i \in 1..Len(own) : C4_Rank(own[i]) >= 1
       /\ \A i, j \in 1..Len(own) : i < j => C4_Rank(own[i]) < C4_Rank(own[j])
       /\ (1 \in {C4_Rank(m) : m \in Range(own)}) = hasInternalError(props)
       /\ (2 \in {C4_Rank(m) : m \in Range(own)}) = hasPatternError(props)
       /\ (3 \in {C4_Rank(m) : m \in Range(own)}) = hasMinLengthError(props)
       /\ (4 \in {C4_Rank(m) : m \in Range(own)}) = hasMaxLengthError(props)
       /\ (5 \in {C4_Rank(m) : m \in Range(own)}) = hasMinimumError(props)
       /\ (6 \in {C4_Rank(m) : m \in Range(own)}) = hasMaximumError(props)
       /\ props.skipInternalValidation => all = ext
       /\ inputOut.ariaInvalid = (all # <<>>)
       /\ inputOut.ariaDescribedby =
              IF all # <<>> THEN Some(FieldName \o "-error") ELSE None

\* Several internal messages are followed by the external errors, one of
\* them given twice.
C4_Witness ==
    /\ Len(OwnMessages(inputOut, props)) >= 3
    /\ Len(props.externalErrors) = 3
    /\ inputOut.ariaInvalid

-----------------------------------------------------------------------------
\* Whether the message of a rule is among messages, and the props a rule reads
C5_Appears(rule, messages) ==
    CASE rule = "required" -> RequiredMessage \in Range(messages)
      [] rule = "pattern" -> \E m \in Range(messages) : IsPatternMessage(m)
      [] rule = "minLength" -> \E m \in Range(messages) : IsMinLengthMessage(m)
      [] rule = "maxLength" -> \E m \in Range(messages) : IsMaxLengthMessage(m)
      [] rule = "minimum" -> \E m \in Range(messages) : IsMinimumMessage(m)
      [] rule = "maximum" -> \E m \in Range(messages) : IsMaximumMessage(m)

C5_OwnConstraint(rule, p) ==
    CASE rule = "required" -> <<p.required>>
      [] rule = "pattern" -> <<p.pattern, p.patternMessage>>
      [] rule = "minLength" -> <<p.minLength>>
      [] rule = "maxLength" -> <<p.maxLength>>
      [] rule = "minimum" -> <<p.minimum>>
      [] rule = "maximum" -> <<p.maximum>>

C5_Rules == {"required", "pattern", "minLength", "maxLength", "minimum", "maximum"}
C5_TextareaRules == {"required", "minLength", "maxLength"}

(* C5: the rules are independent: whether the message of a rule appears     *)
(* depends only on the value and on that rule's own constraint, so a        *)
(* re-render that changes any other constraint leaves it as it was; for     *)
(* ValidatedInput and ValidatedTextarea.                                    *)
C5_RulesAreIndependent ==
    [][\A rule \in C5_Rules :
          (/\ props'.value = props.value
           /\ props'.skipInternalValidation = props.skipInternalValidation
           /\ C5_OwnConstraint(rule, props') = C5_OwnConstraint(rule, props))
          => /\ C5_Appears(rule, OwnMessages(inputOut', props'))
                  = C5_Appears(rule, OwnMessages(inputOut, props))
             /\ rule \in C5_TextareaRules =>
                    C5_Appears(rule, textareaOut'.messages)
                        = C5_Appears(rule, textareaOut.messages)]_vars

\* Four rules report at once, among them both length rules.
C5_Witness ==
    /\ Len(OwnMessages(inputOut, props)) >= 4
    /\ \E m \in Range(inputOut.messages) : IsMinLengthMessage(m)
    /\ \E m \in Range(inputOut.messages) : IsMaxLengthMessage(m)
    /\ Len(textareaOut.messages) = 2

-----------------------------------------------------------------------------
(* C6: ValidatedTextarea follows ValidatedInput: for every value (absent, a *)
(* string or a number) and every required, minLength and maxLength, it      *)
(* renders without failing and shows the messages ValidatedInput shows for  *)
(* the same value and constraints with no pattern, no numeric range, no     *)
(* external errors and internal validation on.                              *)
C6_TextareaMatchesInput ==
    (/\ ~IsSet(props.pattern)
     /\ ~IsSet(props.minimum)
     /\ ~IsSet(props.maximum)
     /\ props.externalErrors = <<>>
     /\ ~props.skipInternalValidation)
    => /\ ~textareaOut.threw
       /\ textareaOut.messages = inputOut.messages

-----------------------------------------------------------------------------
(* C10: for a blank value ValidatedInput's own checks produce no pattern,   *)
(* length or numeric-range message: at most 'This field is required'.       *)
C10_BlankOnlyRequired ==
    IsBlankValue(props.value) =>
        /\ Range(OwnMessages(inputOut, props)) \subseteq {RequiredMessage}
        /\ Len(OwnMessages(inputOut, props)) <= 1

-----------------------------------------------------------------------------
\* Names the lookup can key: defined, and not "__proto__"
C3_PlainNames(names) == UndefinedValue \notin names /\ "__proto__" \notin names

\* The object half of the round trip
C3_ObjectRoundTrips ==
    captured.kind = "object" =>
        Range(customPropertiesLookup(ArrayOf(currentArray(captured))).items)
            = Range(captured.items)

(* C3 as stated: the array and the object form of customProperties both     *)
(* round-trip: a keyed object turned into an array (updateCustomProperty)   *)
(* and then into the lookup (customPropertiesLookup) is the same key/value  *)
(* map, and an array turned into the lookup and back into an array is the   *)
(* same sequence of entries.  Stated here for the names a lookup can key    *)
(* (every entry has a name, none is "__proto__").                           *)
C3_BothRoundTrip ==
    /\ (/\ captured.kind = "object"
        /\ C3_PlainNames({captured.items[i][1] : i \in 1..Len(captured.items)}))
       => C3_ObjectRoundTrips
    /\ (/\ captured.kind = "array"
        /\ C3_PlainNames({captured.items[i].property : i \in 1..Len(captured.items)}))
       => currentArray(lookup) = captured.items

(* C3 as amended: leaving aside the name "__proto__" (which an assignment   *)
(* to the lookup never stores), a keyed object round-trips as above; an     *)
(* array round-trips when the property names of its entries are defined     *)
(* and pairwise distinct: the lookup turned back into an array holds        *)
(* exactly the same entries, in the same order when no name is an integer   *)
(* index key (those a JavaScript object enumerates first).                  *)
C3_RoundTripOfDistinctNames ==
    /\ (/\ captured.kind = "object"
        /\ C3_PlainNames({captured.items[i][1] : i \in 1..Len(captured.items)}))
       => C3_ObjectRoundTrips
    /\ (/\ captured.kind = "array"
        /\ DistinctNames(captured.items)
        /\ C3_PlainNames({captured.items[i].property : i \in 1..Len(captured.items)}))
       => /\ Range(currentArray(lookup)) = Range(captured.items)
          /\ Len(currentArray(lookup)) = Len(captured.items)
          /\ (\A i \in 1..Len(captured.items) : ~IsIndexKey(captured.items[i].property))
                 => currentArray(lookup) = captured.items

\* The render has turned an array of two distinctly named entries into a
\* lookup of two keys, the index key enumerated first.
C3_Witness ==
    /\ captured.kind = "array"
    /\ Len(captured.items) = 2
    /\ captured.items[1].property = "a"
    /\ captured.items[2].property = "1"
    /\ Len(lookup.items) = 2
    /\ lookup.items[1][1] = "1"

-----------------------------------------------------------------------------
(* C7: from a description without customProperties, whatever sequence of    *)
(* updateCustomProperty calls runs, the value written at                    *)
(* description.customProperties is undefined or a non-empty array of        *)
(* entries with pairwise distinct property names; never a keyed object,     *)
(* never an empty array.                                                    *)
C7_StoredIsArrayOfDistinctNames ==
    \/ stored = NoCustomProperties
    \/ /\ stored.kind = "array"
       /\ stored.items # <<>>
       /\ DistinctNames(stored.items)
       /\ \A i \in 1..Len(stored.items) :
              /\ stored.items[i].property \in PropertyNames
              /\ stored.items[i].value \in PropertyValues

\* A property was set twice and another one removed, and entries remain.
C7_Witness ==
    /\ Len(calls) = 3
    /\ calls[1].property = calls[2].property
    /\ calls[1].value # UndefinedValue /\ calls[2].value # UndefinedValue
    /\ calls[3].value = UndefinedValue
    /\ stored.kind = "array"

-----------------------------------------------------------------------------
(* C8: for every stored customProperties and every property p, a call       *)
(* updateCustomProperty(p, v) made on the current render leaves a stored    *)
(* value whose lookup maps p to v (has no entry for p when v is undefined)  *)
(* and maps every other property as before.  Stated here for the names a    *)
(* lookup can key (none is "__proto__").                                    *)
C8_UpdateChangesExactlyThatProperty ==
    [][\A p \in PropertyNames \ {"__proto__"}, v \in CallValues :
          (captured = stored /\ updateCustomProperty(p, v))
          => LET before == customPropertiesLookup(stored)
                 after == customPropertiesLookup(stored')
             IN /\ v # UndefinedValue => LookupHas(after, p) /\ LookupGet(after, p) = v
                /\ v = UndefinedValue => ~LookupHas(after, p)
                /\ \A q \in PropertyNames \ {p, "__proto__"} :
                       /\ LookupHas(after, q) = LookupHas(before, q)
                       /\ LookupHas(before, q) => LookupGet(after, q) = LookupGet(before, q)]_vars

-----------------------------------------------------------------------------
(* C9: no custom-property update is lost: under every interleaving of       *)
(* updateCustomProperty calls and re-renders, the stored customProperties   *)
(* hold, for every property, the entry the last call for that property set  *)
(* (and no entry when that call removed it).                                *)
C9_NoUpdateLost ==
    \A i \in 1..Len(calls) :
        (\A j \in (i + 1)..Len(calls) : calls[j].property # calls[i].property)
        => LET entries == {e \in Range(stored.items) : e.property = calls[i].property}
           IN IF calls[i].value = UndefinedValue
              THEN entries = {}
              ELSE entries = {[property |-> calls[i].property, value |-> calls[i].value]}

=============================================================================
